---- MODULE Spec2Model ----
(***************************************************************************)
(* The repodata cache of rpmdeplint (rpmdeplint/repodata.py): the class    *)
(* Cache with entry_path, clean and download_repodata_file, run by several *)
(* processes that share one cache directory.                               *)
(*                                                                         *)
(* The file system is a map from paths to nodes (absent, directory, or a   *)
(* regular file naming an inode); an inode holds the bytes and the mtime   *)
(* and lives on while a path or an open handle refers to it (POSIX unlink  *)
(* and rename semantics).  Every system call of the two methods that       *)
(* another process can observe is one step of a process.                   *)
(***************************************************************************)
EXTENDS Integers, Sequences, FiniteSets, TLC

\* ------------------------------------------------------------------ bounds
\* processes sharing the cache; calls of clean and download_repodata_file they
\* make altogether; chunks of a response body; advances of the clock
NumProcs == 2
MaxCalls == 3
NumChunks == 2
MaxTicks == 1
\* calls of download_package_header
MaxHeaderCalls == 2
\* sections of the yum configuration
MaxSections == 2

Procs == 1..NumProcs

\* --------------------------------------------------------- program constants
\* the default of RPMDEPLINT_EXPIRY_SECONDS
DefaultExpirySeconds == 604800

\* time.time() when the model starts: late enough for a file to be older
\* than the default window
StartTime == DefaultExpirySeconds + 2

\* the values the environment variable RPMDEPLINT_EXPIRY_SECONDS takes
\* (set |-> FALSE: the variable is not set)
ExpiryEnvValues ==
    { [set |-> FALSE, value |-> 0], [set |-> TRUE, value |-> 0] }

\* ------------------------------------------------------------------ inputs
\* A checksum is a string, modelled as the sequence of its characters.
Checksums == {<<"a", "x">>, <<"b", "x">>}

\* A url is <<host and directory, base filename>>.
\* The records of a repomd manifest: a checksum and the url of the file.
Records ==
    { [checksum |-> <<"a", "x">>, url |-> <<"http://m/repodata", "primary.xml.gz">>],
      [checksum |-> <<"b", "x">>, url |-> <<"http://m/repodata", "filelists.xml.gz">>] }

\* os.path.basename(url)
basename(url) == url[Len(url)]

\* The body the server sends for a url, as the chunks response.raw.stream yields.
Body(url) == [i \in 1..NumChunks |-> <<basename(url), i>>]

\* The bytes a checksum is the digest of: the body of the record that names it.
Content(checksum) == Body((CHOOSE r \in Records : r.checksum = checksum).url)

\* ------------------------------------------------------------- file system
\* names inside a directory are sequences of characters as well
TmpNames == { <<"tmp", ToString(p)>> : p \in Procs }
SubdirNames == { <<"a">>, <<"b">>, <<"j">> }
EntryNames == { <<"x">>, <<"y">> } \cup TmpNames

\* Cache.base_path(): the root of the cache, the empty relative path
base_path == << >>

Paths ==
    {base_path} \cup { <<s>> : s \in SubdirNames }
        \cup { <<s, n>> : s \in SubdirNames, n \in EntryNames }

NoIno == <<0, 0>>
InitInos == {0} \X (1..4)
InoIds == InitInos \cup (Procs \X (1..MaxCalls))

Absent == [type |-> "absent", ino |-> NoIno]
Dir == [type |-> "dir", ino |-> NoIno]
File(i) == [type |-> "file", ino |-> i]

Unused == [used |-> FALSE, data |-> << >>, mtime |-> 0]
NoHandle == [ino |-> NoIno, checksum |-> << >>, pos |-> 0, k |-> 0]
NoCall == [checksum |-> << >>, url |-> << >>]
NoPath == <<<<"none">>, <<"none">>, <<"none">>>>
NoResult == [op |-> "", kind |-> "none", exc |-> "", msg |-> << >>]

\* Cache.entry_path(checksum): base_path() / checksum[:1] / checksum[1:]
entry_path(checksum) == base_path \o <<SubSeq(checksum, 1, 1), Tail(checksum)>>

\* Path.parent
parent(path) == SubSeq(path, 1, Len(path) - 1)

VARIABLES
    now,          \* time.time()
    ticks,        \* how often the clock has advanced
    expiry_env,   \* the environment variable RPMDEPLINT_EXPIRY_SECONDS
    fs,           \* path -> node
    inodes,       \* inode id -> [used, data, mtime]
    pc,           \* where each process stands
    ncalls,       \* calls each process has started
    call,         \* the arguments of the running download_repodata_file
    f,            \* the file object f of the running call
    temp_path,    \* temp_path of the running call
    exc,          \* the exception the running call is propagating
    failed_at,    \* the download step of the running call that failed: "get" or "stream"
    result,       \* how the last call of each process ended
    handles,      \* the file objects returned to each process, still open
    expiry_time,  \* clean(): expiry_time
    subdirs,      \* clean(): what Cache.base_path().iterdir() has yet to yield
    entries,      \* clean(): what subdir.iterdir() has yet to yield
    entry,        \* clean(): entry
    stat_mtime,   \* clean(): the st_mtime entry.stat() returned
    start_time,   \* time.time() when the running call started
    nget,         \* HTTP requests each process has issued
    nget0,        \* the HTTP requests it had issued when its running call started
    last,         \* the checksum of the last call of each process that returned a handle
    evicted,      \* whether a clean() has unlinked that entry since
    fs0,          \* the file system when the model started
    inodes0,      \* the inodes when the model started
    self,         \* the attributes of the Repo object
    rpc,          \* where the process stands in the methods of the Repo object
    rexc,         \* the exception a method of the Repo object raised
    perform_result, \* what librepo's perform() did: "" (not called), "ok" or the error
    pkgs,         \* the package the repository serves at each location
    downloaded,   \* the files librepo has written under _root_path, by base name
    location,     \* download_package_header(): the argument location
    attempts,     \* download_package_header(): the range downloads made by the call
    hres,         \* how the last download_package_header ended
    hcalls,       \* calls of download_package_header made
    config,       \* the sections configparser has read from the yum configuration
    section_i,    \* from_yum_config(): sections the loop has gone through
    yielded,      \* from_yum_config(): the Repos yielded
    yexc,         \* from_yum_config(): the exception raised
    subst_s,      \* substitute_yumvars(s, _yumvars): the argument s
    subst_yumvars,\* substitute_yumvars(s, _yumvars): the argument _yumvars
    subst_result  \* substitute_yumvars(s, _yumvars): the value returned

vars == <<now, ticks, expiry_env, fs, inodes, pc, ncalls, call, f, temp_path, exc,
          failed_at, result, handles, expiry_time, subdirs, entries, entry, stat_mtime,
          start_time, nget, nget0, last, evicted, fs0, inodes0,
          self, rpc, rexc, perform_result,
          pkgs, downloaded, location, attempts, hres, hcalls,
          config, section_i, yielded, yexc, subst_s, subst_yumvars, subst_result>>

clockVars == <<now, ticks>>
repoVars == <<self, rpc, rexc, perform_result>>
\* what no step of the methods of Cache changes
headerVars == <<pkgs, downloaded, location, attempts, hres, hcalls>>
substVars == <<subst_s, subst_yumvars, subst_result>>
yumVars == <<config, section_i, yielded, yexc, substVars>>
constVars == <<expiry_env, fs0, inodes0, repoVars, headerVars, yumVars>>
callVars == <<call, f, temp_path, exc, failed_at>>
cleanVars == <<expiry_time, subdirs, entries, entry, stat_mtime>>
histVars == <<nget, nget0, last, evicted>>

\* ----------------------------------------------------------------- helpers
RECURSIVE Sum(_, _)
Sum(fn, S) == IF S = {} THEN 0 ELSE LET x == CHOOSE x \in S : TRUE IN fn[x] + Sum(fn, S \ {x})

\* a process may start another call; the processes are numbered in the order
\* of their first calls
MayCall(p) ==
    /\ pc[p] = "idle"
    /\ Sum(ncalls, Procs) < MaxCalls
    /\ \A q \in Procs : q < p => ncalls[q] > 0

\* the inodes some path names, and the inodes some file object holds open
Linked(fsys) == { fsys[q].ino : q \in { q \in Paths : fsys[q].type = "file" } }
Open(fobj, hs) == { fobj[p].ino : p \in Procs } \cup { h.ino : h \in UNION { hs[p] : p \in Procs } }

\* The kernel frees an inode once no path and no open file refers to it.
Reclaim(tbl, fsys, fobj, hs) ==
    [i \in InoIds |-> IF i \in Linked(fsys) \cup Open(fobj, hs) THEN tbl[i] ELSE Unused]

\* what a reader gets from a file object: the bytes from its position on
Read(tbl, h) == SubSeq(tbl[h.ino].data, h.pos + 1, Len(tbl[h.ino].data))

IsDir(fsys, path) == fsys[path].type = "dir"
IsFile(fsys, path) == fsys[path].type = "file"

\* os.listdir of a directory
ListDir(fsys, d) == { q \in Paths : Len(q) = Len(d) + 1 /\ parent(q) = d /\ fsys[q].type # "absent" }

\* a call starts
Started(p) ==
    /\ ncalls' = [ncalls EXCEPT ![p] = @ + 1]
    /\ start_time' = [start_time EXCEPT ![p] = now]
    /\ nget0' = [nget0 EXCEPT ![p] = nget[p]]

Returned(what) == [op |-> what, kind |-> "returned", exc |-> "", msg |-> << >>]
Raises(what, class, msg) == [op |-> what, kind |-> "raised", exc |-> class, msg |-> msg]

\* ------------------------------------------------- download_repodata_file
\* filepath_in_cache = Cache.entry_path(checksum)
filepath_in_cache(p) == entry_path(call[p].checksum)

\* the download written straight to the final path
mkstemp_final(p) == filepath_in_cache(p)

\* tempfile.mkstemp(dir=filepath_in_cache.parent): a fresh name in the entry's
\* directory (a process has at most one temp file at a time)
mkstemp_path(p) == parent(filepath_in_cache(p)) \o << <<"tmp", ToString(p)>> >>

\* RepoDownloadError(f"Failed to download repodata file {os.path.basename(url)}")
RepoDownloadError(url) ==
    [class |-> "RepoDownloadError",
     msg |-> <<"Failed to download repodata file", basename(url)>>]
Exception(class) == [class |-> class, msg |-> << >>]
NoExc == Exception("")

\* the inner handler: "except OSError as e: raise RepoDownloadError(...) from e";
\* any other exception leaves the inner try statement as it is
Translate(class, url) == IF class = "OSError" THEN RepoDownloadError(url) ELSE Exception(class)

\* the locals of a call of download_repodata_file are gone
ClearCall(p) ==
    /\ call' = [call EXCEPT ![p] = NoCall]
    /\ f' = [f EXCEPT ![p] = NoHandle]
    /\ temp_path' = [temp_path EXCEPT ![p] = NoPath]
    /\ exc' = [exc EXCEPT ![p] = NoExc]
    /\ failed_at' = [failed_at EXCEPT ![p] = ""]
    /\ start_time' = [start_time EXCEPT ![p] = 0]
    /\ nget0' = [nget0 EXCEPT ![p] = nget[p]]

\* download_repodata_file ends: it returns or raises
EndDownload(p, res) ==
    /\ pc' = [pc EXCEPT ![p] = "idle"]
    /\ result' = [result EXCEPT ![p] = res]
    /\ ClearCall(p)

\* open(filepath_in_cache, "rb"): "ok" or the errno
open_errno(fsys, path) ==
    IF IsFile(fsys, path) THEN "ok"
    ELSE IF IsDir(fsys, path) THEN "EISDIR"
    ELSE IF \A k \in 0..(Len(path) - 1) : ~IsFile(fsys, SubSeq(path, 1, k)) THEN "ENOENT"
    ELSE "ENOTDIR"

\* lines 82-97: open(filepath_in_cache, "rb") and the branch its outcome selects
DownloadOpen(p, r) ==
    /\ MayCall(p)
    /\ LET path == entry_path(r.checksum)
           err == open_errno(fs, path)
       IN IF err \in {"ok", "EISDIR", "ENOENT"}
          THEN /\ Started(p)
               /\ call' = [call EXCEPT ![p] = r]
               /\ result' = [result EXCEPT ![p] = [op |-> "download", kind |-> "none", exc |-> "", msg |-> << >>]]
               /\ f' = [f EXCEPT ![p] =
                          IF err = "ok"
                          THEN [ino |-> fs[path].ino, checksum |-> r.checksum, pos |-> 0,
                                k |-> ncalls[p] + 1]
                          ELSE NoHandle]
               /\ pc' = [pc EXCEPT ![p] =
                           CASE err = "ok" -> "utime"
                             [] err = "EISDIR" -> "rmtree"
                             [] err = "ENOENT" -> "mkstemp"]
               /\ UNCHANGED <<temp_path, exc, failed_at>>
          ELSE \* any other errno: the "else: raise" of line 95
               /\ ncalls' = [ncalls EXCEPT ![p] = @ + 1]
               /\ result' = [result EXCEPT ![p] = Raises("download", "OSError", <<err>>)]
               /\ UNCHANGED <<pc, call, f, temp_path, exc, failed_at, start_time, nget0>>
    /\ UNCHANGED <<fs, inodes, handles, nget, last, evicted>>
    /\ UNCHANGED <<clockVars, constVars, cleanVars>>

\* no utime: the mtime stays
noutime(tbl, ino, t) == tbl

\* os.utime(fd): the inode's mtime becomes the current time
utime(tbl, ino, t) == [tbl EXCEPT ![ino].mtime = t]

\* lines 100-101: os.utime(f.fileno()); return f
DownloadUtime(p) ==
    /\ pc[p] = "utime"
    /\ inodes' = utime(inodes, f[p].ino, now)
    /\ handles' = [handles EXCEPT ![p] = @ \cup {f[p]}]
    /\ EndDownload(p, Returned("download"))
    /\ last' = [last EXCEPT ![p] = call[p].checksum]
    /\ evicted' = [evicted EXCEPT ![p] = ~(IsFile(fs, filepath_in_cache(p))
                                            /\ fs[filepath_in_cache(p)].ino = f[p].ino)]
    /\ UNCHANGED <<fs, ncalls, nget>>
    /\ UNCHANGED <<clockVars, constVars, cleanVars>>

\* the EISDIR branch without the rmtree: the directory stays
KeepLegacyDir(p) ==
    /\ pc[p] = "rmtree"
    /\ pc' = [pc EXCEPT ![p] = "mkstemp"]
    /\ UNCHANGED <<fs, inodes, ncalls, result, handles, start_time>>
    /\ UNCHANGED <<clockVars, constVars, callVars, cleanVars, histVars>>

\* line 93: shutil.rmtree(filepath_in_cache, ignore_errors=True); a path that
\* is no directory any more is left alone, the error ignored
DownloadRmtree(p) ==
    /\ pc[p] = "rmtree"
    /\ fs' = IF IsDir(fs, filepath_in_cache(p))
             THEN [fs EXCEPT ![filepath_in_cache(p)] = Absent]
             ELSE fs
    /\ pc' = [pc EXCEPT ![p] = "mkstemp"]
    /\ UNCHANGED <<inodes, ncalls, result, handles, start_time>>
    /\ UNCHANGED <<clockVars, constVars, callVars, cleanVars, histVars>>

\* the file system after filepath_in_cache.parent.mkdir(parents=True, exist_ok=True)
Mkdirs(fsys, d) == [q \in Paths |-> IF \E k \in 0..Len(d) : q = SubSeq(d, 1, k) THEN Dir ELSE fsys[q]]

\* lines 102-106: mkdir, mkstemp, os.fdopen(fd, "wb+")
DownloadMkstemp(p) ==
    /\ pc[p] = "mkstemp"
    /\ LET dir == parent(filepath_in_cache(p))
           tmp == mkstemp_path(p)
           ino == <<p, ncalls[p]>>
       IN IF \E k \in 0..Len(dir) : IsFile(fs, SubSeq(dir, 1, k))
          THEN \* mkdir raises FileExistsError
               /\ EndDownload(p, Raises("download", "OSError", <<"EEXIST">>))
               /\ UNCHANGED <<fs, inodes>>
          ELSE /\ fs' = [Mkdirs(fs, dir) EXCEPT ![tmp] = File(ino)]
               /\ inodes' = [inodes EXCEPT ![ino] = [used |-> TRUE, data |-> << >>, mtime |-> now]]
               /\ f' = [f EXCEPT ![p] = [ino |-> ino, checksum |-> call[p].checksum, pos |-> 0,
                                         k |-> ncalls[p]]]
               /\ temp_path' = [temp_path EXCEPT ![p] = tmp]
               /\ pc' = [pc EXCEPT ![p] = "get"]
               /\ UNCHANGED <<result, call, exc, failed_at, start_time, nget0>>
    /\ UNCHANGED <<ncalls, handles, nget, last, evicted>>
    /\ UNCHANGED <<clockVars, constVars, cleanVars>>

\* lines 112-113: requests_session.get(url, stream=True); response.raise_for_status().
\* Both raise subclasses of requests.RequestException, which are OSErrors.
DownloadGet(p) ==
    /\ pc[p] = "get"
    /\ nget' = [nget EXCEPT ![p] = @ + 1]
    /\ \/ /\ pc' = [pc EXCEPT ![p] = "stream"]
          /\ UNCHANGED <<exc, failed_at>>
       \/ /\ pc' = [pc EXCEPT ![p] = "cleanup"]
          /\ exc' = [exc EXCEPT ![p] = Translate("OSError", call[p].url)]
          /\ failed_at' = [failed_at EXCEPT ![p] = "get"]
    /\ UNCHANGED <<fs, inodes, ncalls, call, f, temp_path, result, handles, start_time,
                   nget0, last, evicted>>
    /\ UNCHANGED <<clockVars, constVars, cleanVars>>

\* The exceptions the loop of lines 114-115 can raise: f.write raises OSError
\* (disk full); response.raw is the urllib3 response, whose stream() raises
\* urllib3.exceptions.HTTPError subclasses (ProtocolError, ReadTimeoutError),
\* which derive from Exception and not from OSError.
StreamErrors == {"OSError", "ProtocolError"}

\* a loop that stops after the first chunk
BodyDoneEarly(n) == n >= 1

\* the loop of line 114 ends when response.raw.stream has yielded the whole body
BodyDone(n) == n = NumChunks

\* lines 114-116: one chunk of response.raw.stream written by f.write(chunk);
\* after the last one response.close()
DownloadStream(p) ==
    /\ pc[p] = "stream"
    /\ LET ino == f[p].ino
           n == f[p].pos
       IN \/ /\ inodes' = [inodes EXCEPT ![ino] =
                              [used |-> TRUE,
                               data |-> Append(@.data, Body(call[p].url)[n + 1]),
                               mtime |-> now]]
             /\ f' = [f EXCEPT ![p].pos = n + 1]
             /\ pc' = [pc EXCEPT ![p] = IF BodyDone(n + 1) THEN "commit" ELSE "stream"]
             /\ UNCHANGED <<exc, failed_at>>
          \/ /\ \E class \in StreamErrors :
                   exc' = [exc EXCEPT ![p] = Translate(class, call[p].url)]
             /\ pc' = [pc EXCEPT ![p] = "cleanup"]
             /\ failed_at' = [failed_at EXCEPT ![p] = "stream"]
             /\ UNCHANGED <<inodes, f>>
    /\ UNCHANGED <<fs, ncalls, call, temp_path, result, handles, start_time>>
    /\ UNCHANGED <<clockVars, constVars, cleanVars, histVars>>

\* os.rename(src, dst) on a POSIX file system: dst, when it is a file, is replaced
\* atomically; the result is "ok" or the errno
rename_errno(fsys, src, dst) ==
    IF ~IsFile(fsys, src) THEN "ENOENT"
    ELSE IF IsDir(fsys, dst) THEN "EISDIR"
    ELSE "ok"
\* a rename to some other destination than dst
rename_elsewhere(fsys, src, dst) == [fsys EXCEPT ![src] = Absent]
\* a copy, which leaves src in place
copy(fsys, src, dst) == [fsys EXCEPT ![dst] = fsys[src]]

rename(fsys, src, dst) == [fsys EXCEPT ![dst] = fsys[src], ![src] = Absent]

\* no seek: the position stays behind the last byte written
noseek(h) == h

\* line 122: f.seek(0)
seek0(h) == [h EXCEPT !.pos = 0]

\* lines 121-126: f.flush(); f.seek(0); os.fchmod; os.rename(temp_path,
\* filepath_in_cache); return f
DownloadCommit(p) ==
    /\ pc[p] = "commit"
    /\ LET dst == filepath_in_cache(p)
           err == rename_errno(fs, temp_path[p], dst)
       IN IF err = "ok"
          THEN /\ fs' = rename(fs, temp_path[p], dst)
               /\ handles' = [handles EXCEPT ![p] = @ \cup {seek0(f[p])}]
               /\ EndDownload(p, Returned("download"))
               /\ inodes' = Reclaim(inodes, fs', f', handles')
               /\ last' = [last EXCEPT ![p] = call[p].checksum]
               /\ evicted' = [evicted EXCEPT ![p] = FALSE]
          ELSE \* an OSError outside the inner try: caught by "except Exception"
               /\ exc' = [exc EXCEPT ![p] = Exception(err)]
               /\ f' = [f EXCEPT ![p] = seek0(@)]
               /\ pc' = [pc EXCEPT ![p] = "cleanup"]
               /\ UNCHANGED <<fs, handles, inodes, temp_path, result, last, evicted, call,
                              failed_at, start_time, nget0>>
    /\ UNCHANGED <<ncalls, nget>>
    /\ UNCHANGED <<clockVars, constVars, cleanVars>>

\* lines 127-130: except Exception: f.close(); os.unlink(temp_path); raise
DownloadCleanup(p) ==
    /\ pc[p] = "cleanup"
    /\ IF IsFile(fs, temp_path[p])
       THEN /\ fs' = [fs EXCEPT ![temp_path[p]] = Absent]
            /\ EndDownload(p, Raises("download", exc[p].class, exc[p].msg))
       ELSE \* os.unlink raises FileNotFoundError, which replaces the exception
            /\ fs' = fs
            /\ EndDownload(p, Raises("download", "FileNotFoundError", << >>))
    /\ inodes' = Reclaim(inodes, fs', f', handles)
    /\ UNCHANGED <<ncalls, handles, nget, last, evicted>>
    /\ UNCHANGED <<clockVars, constVars, cleanVars>>

\* A KeyboardInterrupt (SIGINT) or a kill while the call is inside the try
\* statement of lines 110-130: KeyboardInterrupt is a BaseException, so
\* "except Exception" does not catch it; the process ends and its file
\* objects are closed, the temp file stays where it is.
Interrupt(p) ==
    /\ pc[p] \in {"get", "stream", "commit", "cleanup"}
    /\ pc' = [pc EXCEPT ![p] = "exit"]
    /\ result' = [result EXCEPT ![p] = Raises("download", "KeyboardInterrupt", << >>)]
    /\ ClearCall(p)
    /\ handles' = [handles EXCEPT ![p] = {}]
    /\ inodes' = Reclaim(inodes, fs, f', handles')
    /\ last' = [last EXCEPT ![p] = << >>]
    /\ evicted' = [evicted EXCEPT ![p] = FALSE]
    /\ UNCHANGED <<fs, ncalls, nget>>
    /\ UNCHANGED <<clockVars, constVars, cleanVars>>

\* ------------------------------------------------------------------ clean
\* float(getenv("RPMDEPLINT_EXPIRY_SECONDS", 604800))
ExpiryWindow == IF expiry_env.set THEN expiry_env.value ELSE DefaultExpirySeconds

\* the comparison with <= for <
ExpiredOrEqual(mtime, cutoff) == mtime <= cutoff

\* line 67: entry.stat().st_mtime < expiry_time
Expired(mtime, cutoff) == mtime < cutoff

\* clean ends: it returns or raises, and its locals are gone
EndClean(p, res) ==
    /\ pc' = [pc EXCEPT ![p] = "idle"]
    /\ result' = [result EXCEPT ![p] = res]
    /\ expiry_time' = [expiry_time EXCEPT ![p] = 0]
    /\ subdirs' = [subdirs EXCEPT ![p] = {}]
    /\ entries' = [entries EXCEPT ![p] = {}]
    /\ entry' = [entry EXCEPT ![p] = NoPath]
    /\ stat_mtime' = [stat_mtime EXCEPT ![p] = 0]
    /\ start_time' = [start_time EXCEPT ![p] = 0]

\* lines 57-60: expiry_time, the is_dir() test of the base path, and the
\* listing Cache.base_path().iterdir() takes when the loop starts
CleanStart(p) ==
    /\ MayCall(p)
    /\ ncalls' = [ncalls EXCEPT ![p] = @ + 1]
    /\ IF ~IsDir(fs, base_path)
       THEN \* nothing to do
            EndClean(p, Returned("clean"))
       ELSE /\ expiry_time' = [expiry_time EXCEPT ![p] = now - ExpiryWindow]
            /\ start_time' = [start_time EXCEPT ![p] = now]
            /\ subdirs' = [subdirs EXCEPT ![p] = ListDir(fs, base_path)]
            /\ pc' = [pc EXCEPT ![p] = "clean_subdir"]
            /\ result' = [result EXCEPT ![p] = [op |-> "clean", kind |-> "none", exc |-> "", msg |-> << >>]]
            /\ UNCHANGED <<entries, entry, stat_mtime>>
    /\ UNCHANGED <<fs, inodes, handles>>
    /\ UNCHANGED <<clockVars, constVars, callVars, histVars>>

\* lines 60-64: the next subdir the outer loop yields, in any order; a subdir
\* that is a directory is listed (subdir.iterdir()); when none is left, clean returns
CleanSubdir(p) ==
    /\ pc[p] = "clean_subdir"
    /\ \/ /\ subdirs[p] = {}
          /\ EndClean(p, Returned("clean"))
       \/ \E subdir \in subdirs[p] :
            /\ subdirs' = [subdirs EXCEPT ![p] = @ \ {subdir}]
            /\ IF ~IsDir(fs, subdir)
               THEN UNCHANGED <<pc, entries>>
               ELSE /\ entries' = [entries EXCEPT ![p] = ListDir(fs, subdir)]
                    /\ pc' = [pc EXCEPT ![p] = "clean_entry"]
            /\ UNCHANGED <<result, expiry_time, entry, stat_mtime, start_time>>
    /\ UNCHANGED <<fs, inodes, ncalls, handles>>
    /\ UNCHANGED <<clockVars, constVars, callVars, histVars>>

\* lines 64-66: the next entry the inner loop yields, in any order, and its
\* is_file() test (False for a path that is gone)
CleanEntry(p) ==
    /\ pc[p] = "clean_entry"
    /\ \/ /\ entries[p] = {}
          /\ pc' = [pc EXCEPT ![p] = "clean_subdir"]
          /\ UNCHANGED <<entries, entry>>
       \/ \E e \in entries[p] :
            /\ entries' = [entries EXCEPT ![p] = @ \ {e}]
            /\ IF ~IsFile(fs, e)
               THEN UNCHANGED <<pc, entry>>
               ELSE /\ entry' = [entry EXCEPT ![p] = e]
                    /\ pc' = [pc EXCEPT ![p] = "clean_stat"]
    /\ UNCHANGED <<fs, inodes, ncalls, result, handles, expiry_time, subdirs, stat_mtime,
                   start_time>>
    /\ UNCHANGED <<clockVars, constVars, callVars, histVars>>

\* line 67: entry.stat() raises FileNotFoundError for a path that is gone
CleanStat(p) ==
    /\ pc[p] = "clean_stat"
    /\ IF ~IsFile(fs, entry[p])
       THEN EndClean(p, Raises("clean", "FileNotFoundError", << >>))
       ELSE LET mtime == inodes[fs[entry[p]].ino].mtime
            IN /\ stat_mtime' = [stat_mtime EXCEPT ![p] = mtime]
               /\ pc' = [pc EXCEPT ![p] =
                            IF Expired(mtime, expiry_time[p]) THEN "clean_unlink" ELSE "clean_entry"]
               /\ UNCHANGED <<result, expiry_time, subdirs, entries, entry, start_time>>
    /\ UNCHANGED <<fs, inodes, ncalls, handles>>
    /\ UNCHANGED <<clockVars, constVars, callVars, histVars>>

\* line 69: entry.unlink() raises FileNotFoundError for a path that is gone
CleanUnlink(p) ==
    /\ pc[p] = "clean_unlink"
    /\ IF ~IsFile(fs, entry[p])
       THEN /\ EndClean(p, Raises("clean", "FileNotFoundError", << >>))
            /\ UNCHANGED <<fs, inodes, evicted>>
       ELSE /\ fs' = [fs EXCEPT ![entry[p]] = Absent]
            /\ inodes' = Reclaim(inodes, fs', f, handles)
            /\ evicted' = [q \in Procs |->
                             evicted[q] \/ (last[q] # << >> /\ entry_path(last[q]) = entry[p])]
            /\ pc' = [pc EXCEPT ![p] = "clean_entry"]
            /\ UNCHANGED <<result, expiry_time, subdirs, entries, entry, stat_mtime, start_time>>
    /\ UNCHANGED <<ncalls, handles, nget, nget0, last>>
    /\ UNCHANGED <<clockVars, constVars, callVars>>

\* ------------------------------------------------------------------ clock
Tick ==
    /\ ticks < MaxTicks
    /\ ticks' = ticks + 1
    /\ now' = now + 1
    /\ UNCHANGED <<fs, inodes, pc, ncalls, result, handles, start_time>>
    /\ UNCHANGED <<constVars, callVars, cleanVars, histVars>>

\* ---------------------------------------------------------- initial caches
\* A cache directory as earlier runs can have left it: what is at each path.
\* The mtimes its files carry: one default window before the start, and the start.
OldTime == StartTime - DefaultExpirySeconds
RecentTime == StartTime

InitPaths == { base_path, <<<<"a">>>>, <<<<"b">>>>, <<<<"j">>>>,
               <<<<"a">>, <<"x">>>>, <<<<"a">>, <<"y">>>>, <<<<"b">>, <<"x">>>> }
InitInoOf(path) ==
    CASE path = <<<<"a">>, <<"x">>>> -> <<0, 1>>
      [] path = <<<<"a">>, <<"y">>>> -> <<0, 2>>
      [] path = <<<<"b">>, <<"x">>>> -> <<0, 3>>
      [] OTHER -> <<0, 4>>

\* what an entry file written by an earlier run holds: the content of its
\* checksum; any other file holds something else
InitData(path) ==
    IF \E c \in Checksums : entry_path(c) = path
    THEN Content(CHOOSE c \in Checksums : entry_path(c) = path)
    ELSE << <<"other", 1>> >>

\* a layout says for each path: "absent", "dir", "old" or "recent" (a file
\* and its mtime); what is inside a directory requires the directory
Layouts ==
    { lay \in [InitPaths -> {"absent", "dir", "old", "recent"}] :
        /\ \A q \in {base_path, <<<<"a">>>>, <<<<"b">>>>} : lay[q] \in {"absent", "dir"}
        /\ \A q \in InitPaths \ {base_path} : lay[q] # "absent" => lay[parent(q)] = "dir" }

LayoutFs(lay) ==
    [q \in Paths |->
        IF q \notin InitPaths \/ lay[q] = "absent" THEN Absent
        ELSE IF lay[q] = "dir" THEN Dir
        ELSE File(InitInoOf(q))]

LayoutInodes(lay) ==
    [i \in InoIds |->
        IF \E q \in InitPaths : lay[q] \in {"old", "recent"} /\ InitInoOf(q) = i
        THEN LET q == CHOOSE q \in InitPaths : lay[q] \in {"old", "recent"} /\ InitInoOf(q) = i
             IN [used |-> TRUE, data |-> InitData(q),
                 mtime |-> IF lay[q] = "old" THEN OldTime ELSE RecentTime]
        ELSE Unused]

InitWith(lay) ==
    /\ now = StartTime
    /\ ticks = 0
    /\ expiry_env \in ExpiryEnvValues
    /\ fs = LayoutFs(lay)
    /\ fs0 = LayoutFs(lay)
    /\ inodes = LayoutInodes(lay)
    /\ inodes0 = LayoutInodes(lay)
    /\ pc = [p \in Procs |-> "idle"]
    /\ ncalls = [p \in Procs |-> 0]
    /\ call = [p \in Procs |-> NoCall]
    /\ f = [p \in Procs |-> NoHandle]
    /\ temp_path = [p \in Procs |-> NoPath]
    /\ exc = [p \in Procs |-> NoExc]
    /\ failed_at = [p \in Procs |-> ""]
    /\ result = [p \in Procs |-> NoResult]
    /\ handles = [p \in Procs |-> {}]
    /\ expiry_time = [p \in Procs |-> 0]
    /\ subdirs = [p \in Procs |-> {}]
    /\ entries = [p \in Procs |-> {}]
    /\ entry = [p \in Procs |-> NoPath]
    /\ stat_mtime = [p \in Procs |-> 0]
    /\ start_time = [p \in Procs |-> 0]
    /\ nget = [p \in Procs |-> 0]
    /\ nget0 = [p \in Procs |-> 0]
    /\ last = [p \in Procs |-> << >>]
    /\ evicted = [p \in Procs |-> FALSE]

\* The caches the concurrent runs start from: only the entries of the two
\* checksums; empty, or two files, or a legacy directory.
SharedLayouts ==
    { lay \in Layouts :
        /\ lay[<<<<"j">>>>] = "absent" /\ lay[<<<<"a">>, <<"y">>>>] = "absent"
        /\ \A c \in Checksums : lay[parent(entry_path(c))] = "dir" <=> lay[entry_path(c)] # "absent"
        /\ lay[base_path] = "dir" <=> \E c \in Checksums : lay[entry_path(c)] # "absent"
        /\ <<lay[<<<<"a">>, <<"x">>>>], lay[<<<<"b">>, <<"x">>>>]>>
               \in { <<"absent", "absent">>, <<"old", "recent">>, <<"dir", "absent">> } }

\* ------------------------------------------------------------------- Repo
\* Optional[str]: None, the empty string, or a string; a url or a path is the
\* sequence of its components
None == <<"None">>
truthy(x) == x # None /\ x # << >>

\* os.path.join(a, b) for a relative b
join(a, b) == a \o b

\* the directory of a repository on the local disk: os.path.isdir(baseurl)
LocalRepoDir == <<"/repo">>
isdir(path) == path = LocalRepoDir

\* the arguments Repo objects are constructed with
RepoNames == {"fedora"}
BaseUrls == {None, << >>, <<"http://m">>, LocalRepoDir}
Metalinks == {None, <<"http://m/metalink">>}

\* the records of repomd.xml that librepo's Result.rpmmd_repomd holds
NoRecord == [location_href |-> << >>, checksum |-> << >>]
NoRepomd == [records |-> [primary |-> NoRecord, filelists |-> NoRecord]]
Repomd ==
    [records |->
        [primary |-> [location_href |-> <<"repodata", "primary.xml.gz">>,
                      checksum |-> <<"a", "x">>],
         filelists |-> [location_href |-> <<"repodata", "filelists.xml.gz">>,
                        checksum |-> <<"b", "x">>]]]

\* librepo.Handle(), and the attributes download_repodata sets
NoLibrepoHandle == [set |-> FALSE, urls |-> << >>, metalinkurl |-> None, destdir |-> None,
                    local |-> FALSE]

\* a file object a Repo holds: one returned by Cache.download_repodata_file
\* (h), or one opened from a path of the local disk
NoFile == [kind |-> "none", path |-> << >>, h |-> NoHandle]
CacheFile(h) == [kind |-> "cache", path |-> << >>, h |-> h]
LocalFile(path) == [kind |-> "local", path |-> path, h |-> NoHandle]

\* no Repo object yet
NoSelf ==
    [name |-> "", baseurl |-> None, metalink |-> None, skip_if_unavailable |-> FALSE,
     librepo_handle |-> NoLibrepoHandle, rpmmd_repomd |-> NoRepomd, root_path |-> None,
     primary |-> NoFile, filelists |-> NoFile]

NoRepo ==
    /\ self = NoSelf
    /\ rpc = "new"
    /\ rexc = NoExc
    /\ perform_result = ""

\* the variables of the methods of Cache, which the Repo's own steps leave alone
cacheVars == <<now, ticks, expiry_env, fs, inodes, pc, ncalls, call, f, temp_path, exc,
               failed_at, result, handles, expiry_time, subdirs, entries, entry, stat_mtime,
               start_time, nget, nget0, last, evicted, fs0, inodes0>>

\* the packages of the repository: where they are, how many bytes they have
\* and how many of them the header takes (hdr > size: the file is no valid
\* package, its header never parses)
Locations == { <<"Packages", "a", "a.rpm">>, <<"b.rpm">> }
NoPkg == [size |-> 0, hdr |-> 0]
NoLocation == << >>
NoDownload == [exists |-> FALSE, len |-> 0]
Basenames == { basename(l) : l \in Locations }
NoHres == [kind |-> "none", path |-> << >>, exc |-> NoExc]

\* download_package_header has not been called
NoHeader ==
    /\ pkgs = [l \in Locations |-> NoPkg]
    /\ downloaded = [b \in Basenames |-> NoDownload]
    /\ location = NoLocation
    /\ attempts = << >>
    /\ hres = NoHres
    /\ hcalls = 0

\* from_yum_config has not been called
NoSubst ==
    /\ subst_s = << >>
    /\ subst_yumvars = << >>
    /\ subst_result = None

NoYum ==
    /\ config = << >>
    /\ section_i = 0
    /\ yielded = << >>
    /\ yexc = NoExc
    /\ NoSubst

Init == (\E lay \in SharedLayouts : InitWith(lay)) /\ NoRepo /\ NoHeader /\ NoYum

Download(p) ==
    \/ \E r \in Records : DownloadOpen(p, r)
    \/ DownloadUtime(p)
    \/ DownloadRmtree(p)
    \/ DownloadMkstemp(p)
    \/ DownloadGet(p)
    \/ DownloadStream(p)
    \/ DownloadCommit(p)
    \/ DownloadCleanup(p)
    \/ Interrupt(p)

Clean(p) ==
    \/ CleanStart(p)
    \/ CleanSubdir(p)
    \/ CleanEntry(p)
    \/ CleanStat(p)
    \/ CleanUnlink(p)

\* processes that share the cache directory, each calling clean and
\* download_repodata_file in any order
Next ==
    \/ \E p \in Procs : Download(p)
    \/ \E p \in Procs : Clean(p)
    \/ Tick

Spec == Init /\ [][Next]_vars

\* one process runs clean() once, on any cache directory, nothing else runs
InitClean == (\E lay \in Layouts : InitWith(lay)) /\ NoRepo /\ NoHeader /\ NoYum

NextClean ==
    \/ (ncalls[1] = 0 /\ CleanStart(1))
    \/ CleanSubdir(1)
    \/ CleanEntry(1)
    \/ CleanStat(1)
    \/ CleanUnlink(1)
    \/ Tick

SpecClean == InitClean /\ [][NextClean]_vars

\* processes that call download_repodata_file only
NextWriters ==
    \/ \E p \in Procs : Download(p)
    \/ Tick

SpecWriters == Init /\ [][NextWriters]_vars

\* ------------------------------------------- Repo.__init__, download_repodata
\* the process that owns the Repo object
RepoProc == CHOOSE p \in Procs : \A q \in Procs : p <= q

RuntimeError(text) == [class |-> "RuntimeError", msg |-> <<text>>]

\* the exception a call of a Cache method ended with
RaisedBy(res) == [class |-> res.exc, msg |-> res.msg]

\* lines 227-235 of Repo.__init__
Repo_init(repo_name, baseurl, metalink, skip_if_unavailable) ==
    /\ rpc = "new"
    /\ IF ~truthy(baseurl) /\ ~truthy(metalink)
       THEN /\ rexc' = RuntimeError("Must specify either baseurl or metalink for repo")
            /\ rpc' = "raised"
            /\ self' = self
       ELSE /\ self' = [NoSelf EXCEPT !.name = repo_name, !.baseurl = baseurl,
                                      !.metalink = metalink,
                                      !.skip_if_unavailable = skip_if_unavailable]
            /\ rpc' = "constructed"
            /\ rexc' = rexc
    /\ UNCHANGED <<perform_result, cacheVars, headerVars, yumVars>>

\* Repo.__repr__, lines 394-399
repr(o) ==
    IF truthy(o.baseurl) THEN <<"Repo", "repo_name", o.name, "baseurl", o.baseurl>>
    ELSE IF truthy(o.metalink) THEN <<"Repo", "repo_name", o.name, "metalink", o.metalink>>
    ELSE <<"Repo", "repo_name", o.name>>

\* the repomd property, lines 364-368, when _rpmmd_repomd is set
repomd(o) == o.rpmmd_repomd

\* the properties of lines 370-392; primary_url and filelists_url raise
\* RuntimeError("baseurl not specified") when baseurl is not set
primary_checksum(o) == repomd(o).records.primary.checksum
filelists_checksum(o) == repomd(o).records.filelists.checksum
primary_url(o) == join(o.baseurl, repomd(o).records.primary.location_href)
filelists_url(o) == join(o.baseurl, repomd(o).records.filelists.location_href)

\* tempfile.mkdtemp(self.name, prefix=REPO_CACHE_NAME_PREFIX, dir=REPO_CACHE_DIR),
\* the n-th directory made
mkdtemp(n, suffix) == <<"/var/tmp", "rpmdeplint-", ToString(n), suffix>>

\* a test that takes no baseurl for a local directory
NeverLocal(o) == FALSE

\* line 253: self.baseurl and os.path.isdir(self.baseurl)
IsLocal(o) == truthy(o.baseurl) /\ isdir(o.baseurl)

\* line 237: download_repodata is called
RepoDownloadRepodata ==
    /\ rpc = "constructed"
    /\ rpc' = "clean"
    /\ UNCHANGED <<self, rexc, perform_result, cacheVars, headerVars, yumVars>>

\* line 238: Cache.clean(), step by step
RepoClean ==
    /\ rpc = "clean"
    /\ \/ (ncalls[RepoProc] = 0 /\ CleanStart(RepoProc))
       \/ CleanSubdir(RepoProc)
       \/ CleanEntry(RepoProc)
       \/ CleanStat(RepoProc)
       \/ CleanUnlink(RepoProc)

\* lines 242-252 and 259: Cache.clean() has ended; the librepo handle and its
\* options.  The handle's attribute local is librepo's: the method reads it
\* (line 329) and never sets it.
RepoHandle ==
    /\ rpc = "clean" /\ pc[RepoProc] = "idle" /\ ncalls[RepoProc] = 1
    /\ IF result[RepoProc].kind = "raised"
       THEN /\ rexc' = RaisedBy(result[RepoProc])
            /\ rpc' = "raised"
            /\ self' = self
       ELSE /\ \E loc \in BOOLEAN :
                 self' = [self EXCEPT
                     !.librepo_handle =
                         [set |-> TRUE,
                          urls |-> IF truthy(self.baseurl) THEN <<self.baseurl>> ELSE << >>,
                          metalinkurl |-> IF truthy(self.metalink) THEN self.metalink ELSE None,
                          destdir |-> IF IsLocal(self) THEN mkdtemp(1, self.name)
                                      ELSE mkdtemp(2, self.name),
                          local |-> loc],
                     !.root_path = IF IsLocal(self) THEN @ ELSE mkdtemp(2, self.name)]
            /\ rpc' = "perform"
            /\ rexc' = rexc
    /\ UNCHANGED <<perform_result, cacheVars, headerVars, yumVars>>

\* what librepo's perform() ends with: "ok" or the message of a LibrepoException
PerformOutcomes == {"ok", "Cannot download repomd.xml"}

\* lines 276-278: RepoDownloadError(f"Failed to download repodata for {self!r}: {ex.args[1]}")
RepoDownloadErrorFor(o, cause) ==
    [class |-> "RepoDownloadError",
     msg |-> <<"Failed to download repodata for", repr(o), cause>>]

\* a handshake failure that skip_if_unavailable swallows
SwallowedIfSkip(o, cause) ==
    IF o.skip_if_unavailable THEN NoExc ELSE RepoDownloadErrorFor(o, cause)

\* lines 273-278: except librepo.LibrepoException as ex: raise RepoDownloadError
HandshakeFailure(o, cause) == RepoDownloadErrorFor(o, cause)

\* lines 254-255 and 260, _download_metadata_result (lines 270-279)
RepoPerform ==
    /\ rpc = "perform"
    /\ \E out \in PerformOutcomes :
         /\ perform_result' = out
         /\ IF out = "ok"
            THEN /\ self' = [self EXCEPT !.rpmmd_repomd = Repomd,
                                         !.root_path = IF IsLocal(self) THEN self.baseurl ELSE @]
                 /\ rpc' = IF IsLocal(self) THEN "open_local" ELSE "primary_args"
                 /\ rexc' = rexc
            ELSE /\ rexc' = HandshakeFailure(self, out)
                 /\ rpc' = IF HandshakeFailure(self, out) = NoExc THEN "primary_args" ELSE "raised"
                 /\ self' = self
    /\ UNCHANGED <<cacheVars, headerVars, yumVars>>

\* the files of the local repository
LocalDisk == { join(LocalRepoDir, Repomd.records.primary.location_href),
               join(LocalRepoDir, Repomd.records.filelists.location_href) }

\* lines 256-257: open(self.primary_url, "rb"); open(self.filelists_url, "rb")
RepoOpenLocal ==
    /\ rpc = "open_local"
    /\ IF {primary_url(self), filelists_url(self)} \subseteq LocalDisk
       THEN /\ self' = [self EXCEPT !.primary = LocalFile(primary_url(self)),
                                    !.filelists = LocalFile(filelists_url(self))]
            /\ rpc' = "done"
            /\ rexc' = rexc
       ELSE /\ rexc' = Exception("FileNotFoundError")
            /\ rpc' = "raised"
            /\ self' = self
    /\ UNCHANGED <<perform_result, cacheVars, headerVars, yumVars>>

\* lines 263-265: the arguments self.primary_checksum and self.primary_url are
\* evaluated before Cache.download_repodata_file is called
RepoPrimaryArgs ==
    /\ rpc = "primary_args"
    /\ IF ~truthy(self.baseurl)
       THEN /\ rexc' = RuntimeError("baseurl not specified")
            /\ rpc' = "raised"
       ELSE /\ rpc' = "primary"
            /\ rexc' = rexc
    /\ UNCHANGED <<self, perform_result, cacheVars, headerVars, yumVars>>

\* the steps of a running Cache.download_repodata_file
RepoDownloadSteps ==
    \/ DownloadUtime(RepoProc)
    \/ DownloadRmtree(RepoProc)
    \/ DownloadMkstemp(RepoProc)
    \/ DownloadGet(RepoProc)
    \/ DownloadStream(RepoProc)
    \/ DownloadCommit(RepoProc)
    \/ DownloadCleanup(RepoProc)

\* lines 263-265: Cache.download_repodata_file(self.primary_checksum, self.primary_url)
RepoPrimary ==
    /\ rpc = "primary"
    /\ \/ /\ ncalls[RepoProc] = 1
          /\ DownloadOpen(RepoProc, [checksum |-> primary_checksum(self), url |-> primary_url(self)])
       \/ RepoDownloadSteps

\* the file object the n-th call of the process returned
ReturnedFile(n) == CHOOSE h \in handles[RepoProc] : h.k = n

\* line 263: self.primary is assigned, or the exception of the call goes on
RepoPrimaryDone ==
    /\ rpc = "primary" /\ pc[RepoProc] = "idle" /\ ncalls[RepoProc] = 2
    /\ IF result[RepoProc].kind = "raised"
       THEN /\ rexc' = RaisedBy(result[RepoProc])
            /\ rpc' = "raised"
            /\ self' = self
       ELSE /\ self' = [self EXCEPT !.primary = CacheFile(ReturnedFile(2))]
            /\ rpc' = "filelists"
            /\ rexc' = rexc
    /\ UNCHANGED <<perform_result, cacheVars, headerVars, yumVars>>

\* lines 266-268: Cache.download_repodata_file(self.filelists_checksum, self.filelists_url)
RepoFilelists ==
    /\ rpc = "filelists"
    /\ \/ /\ ncalls[RepoProc] = 2
          /\ DownloadOpen(RepoProc, [checksum |-> filelists_checksum(self), url |-> filelists_url(self)])
       \/ RepoDownloadSteps

\* line 266: self.filelists is assigned, or the exception of the call goes on
RepoFilelistsDone ==
    /\ rpc = "filelists" /\ pc[RepoProc] = "idle" /\ ncalls[RepoProc] = 3
    /\ IF result[RepoProc].kind = "raised"
       THEN /\ rexc' = RaisedBy(result[RepoProc])
            /\ rpc' = "raised"
            /\ self' = self
       ELSE /\ self' = [self EXCEPT !.filelists = CacheFile(ReturnedFile(3))]
            /\ rpc' = "done"
            /\ rexc' = rexc
    /\ UNCHANGED <<perform_result, cacheVars, headerVars, yumVars>>

\* a process constructs a Repo and calls download_repodata on it
NextRepo ==
    \/ \E n \in RepoNames, b \in BaseUrls, m \in Metalinks, s \in BOOLEAN : Repo_init(n, b, m, s)
    \/ RepoDownloadRepodata
    \/ RepoClean
    \/ RepoHandle
    \/ RepoPerform
    \/ RepoOpenLocal
    \/ RepoPrimaryArgs
    \/ RepoPrimary
    \/ RepoPrimaryDone
    \/ RepoFilelists
    \/ RepoFilelistsDone
    \/ Tick

SpecRepo == Init /\ [][NextRepo]_vars

\* ------------------------------------------------ download_package_header
\* the whole file first
WholeFileFirst == <<0, 100000, 1000000, 5000000>>

\* a list with one more ceiling before the whole file
FiveCeilings == <<100000, 1000000, 5000000, 10000000, 0>>

\* line 339: the ends of the byte ranges tried, 0 for the whole file
Ceilings == <<100000, 1000000, 5000000, 0>>

\* the packages a repository can hold at a location: headers on both sides of
\* every ceiling, a package smaller than the first ceiling, and a file whose
\* header never parses
PkgKinds ==
    { [size |-> 6000000, hdr |-> h] :
        h \in {100000, 100001, 999999, 1000000, 1000001, 5000000, 5000001} }
    \cup { [size |-> 50000, hdr |-> 20000], [size |-> 2000000, hdr |-> 2000001] }

\* line 328: os.path.join(self._root_path, os.path.basename(location)), which
\* is also the local_path librepo gives the target
local_path(o, loc) == join(o.root_path, <<basename(loc)>>)

\* the file at local_path(o, loc): the one librepo wrote there, or, for a
\* local repository, the package itself when it sits in the root directory
FileOf(o, dl, loc, pk) ==
    IF dl[basename(loc)].exists THEN dl[basename(loc)]
    ELSE IF o.root_path = LocalRepoDir /\ Len(loc) = 1 THEN [exists |-> TRUE, len |-> pk.size]
    ELSE NoDownload

\* a test that takes any file that exists for complete
header_exists(file, pk) == file.exists

\* _is_header_complete, lines 281-304: False for a missing file
\* (FileNotFoundError) and when ts.hdrFromFdno raises rpm.error, which it does
\* unless the file holds the whole header
is_header_complete(file, pk) == file.exists /\ pk.hdr <= file.len

\* what librepo.download_packages leaves in target.err: nothing, "Already
\* downloaded" (only for a file that is there in full), or another error
TargetErrs(file, pk) ==
    {"", "Cannot download"}
        \cup (IF file.exists /\ file.len = pk.size THEN {"Already downloaded"} ELSE {})

\* a test that takes every report for an error
AnyErr(err) == err # ""

\* line 354: target.err and target.err != "Already downloaded"
IsError(err) == err # "" /\ err # "Already downloaded"

\* lines 355-357
PackageDownloadError(loc, name, err) ==
    [class |-> "PackageDownloadError",
     msg |-> <<"Failed to download", loc, "from repo", name, err>>]

HeaderReturned(path) == [kind |-> "returned", path |-> path, exc |-> NoExc]
HeaderRaised(e) == [kind |-> "raised", path |-> << >>, exc |-> e]

\* the bytes a range download from 0 to byterangeend leaves in the file: the
\* first byterangeend bytes ("Download first %s bytes", line 350), the whole
\* file for 0
RangeLen(byterangeend, size) ==
    IF byterangeend = 0 \/ byterangeend > size THEN size ELSE byterangeend

\* lines 328-338: the call, the test of librepo_handle.local and the test of
\* the file that is already there
DownloadPackageHeader(loc, baseurl) ==
    /\ rpc = "done"
    /\ hcalls < MaxHeaderCalls
    /\ hcalls' = hcalls + 1
    /\ location' = loc
    /\ attempts' = << >>
    /\ \E k \in PkgKinds : pkgs' = IF pkgs[loc] = NoPkg THEN [pkgs EXCEPT ![loc] = k] ELSE pkgs
    /\ IF self.librepo_handle.set /\ self.librepo_handle.local
       THEN /\ hres' = HeaderReturned(local_path(self, loc))
            /\ rpc' = "done"
       ELSE IF is_header_complete(FileOf(self, downloaded, loc, pkgs'[loc]), pkgs'[loc])
       THEN /\ hres' = HeaderReturned(local_path(self, loc))
            /\ rpc' = "done"
       ELSE /\ hres' = NoHres
            /\ rpc' = "header_loop"
    /\ UNCHANGED <<self, rexc, perform_result, downloaded, cacheVars, yumVars>>

\* lines 339-362: one round of the loop: the range download, the test of
\* target.err, the test of the header, and the return after the loop
HeaderAttempt ==
    /\ rpc = "header_loop"
    /\ LET byterangeend == Ceilings[Len(attempts) + 1]
           pk == pkgs[location]
           file == FileOf(self, downloaded, location, pk)
       IN \E err \in TargetErrs(file, pk) :
            LET got == IF err = ""
                       THEN [exists |-> TRUE, len |-> RangeLen(byterangeend, pk.size)]
                       ELSE file
                complete == ~IsError(err) /\ is_header_complete(got, pk)
            IN /\ downloaded' = IF err = ""
                                 THEN [downloaded EXCEPT ![basename(location)] = got]
                                 ELSE downloaded
               /\ attempts' = Append(attempts, [byterangeend |-> byterangeend, err |-> err,
                                                 complete |-> complete])
               /\ IF IsError(err)
                  THEN /\ hres' = HeaderRaised(PackageDownloadError(location, self.name, err))
                       /\ rpc' = "done"
                  ELSE IF complete \/ Len(attempts) + 1 = Len(Ceilings)
                  THEN /\ hres' = HeaderReturned(local_path(self, location))
                       /\ rpc' = "done"
                  ELSE /\ hres' = hres
                       /\ rpc' = "header_loop"
    /\ UNCHANGED <<self, rexc, perform_result, pkgs, location, hcalls, cacheVars, yumVars>>

\* a process constructs a Repo, calls download_repodata and then
\* download_package_header for packages of the repository
NextHeader ==
    \/ NextRepo
    \/ \E loc \in Locations, b \in {<<"http://m">>, LocalRepoDir} : DownloadPackageHeader(loc, b)
    \/ HeaderAttempt

\* the cache the process starts with: both entries are there, and
\* RPMDEPLINT_EXPIRY_SECONDS is not set
WarmLayout == CHOOSE lay \in SharedLayouts : lay[<<<<"a">>, <<"x">>>>] = "old"

InitHeader ==
    /\ InitWith(WarmLayout)
    /\ ~expiry_env.set
    /\ NoRepo /\ NoHeader /\ NoYum

SpecHeader == InitHeader /\ [][NextHeader]_vars

\* ---------------------------------------------------------- from_yum_config
\* an option of a section: not there, or there with a value
NoOption(empty) == [set |-> FALSE, value |-> empty]
Option(v) == [set |-> TRUE, value |-> v]

\* Repo.get_yumvars(): the substitutions, in the order the dict yields them
YumVars == << [name |-> "basearch", value |-> "x86_64"],
              [name |-> "releasever", value |-> "40"] >>

\* substitute_yumvars, lines 165-168: for every name in turn, s.replace("$name", value);
\* a string is the sequence of its pieces, a piece <<"$", name>> or a text
RECURSIVE substitute_yumvars(_, _)
substitute_yumvars(str, yumvars) ==
    IF yumvars = << >> THEN str
    ELSE substitute_yumvars(
             [i \in DOMAIN str |->
                 IF str[i] = "$" \o Head(yumvars).name THEN Head(yumvars).value ELSE str[i]],
             Tail(yumvars))

\* the values of the options enabled and skip_if_unavailable
BoolTexts == {"0", "1", "False", "2"}

\* RawConfigParser.getboolean: "ok" with the value, or ValueError for a text
\* that is no boolean; the text is compared in lower case
getboolean_ok(text) == text \in {"0", "1", "False"}
getboolean(text) == text = "1"

\* the sections the configuration files can hold
SectionNames == {"main", "fedora", "updates"}
\* the values of the options baseurl, metalink and mirrorlist: a remote URL with
\* placeholders, the file:// URL of the local directory, and an empty value
HttpUrl == <<"http://m/", "$releasever", "/", "$basearch">>
FileUrl == <<"file://">> \o LocalRepoDir
ConfigUrls == { HttpUrl, FileUrl, << >> }
SourceOf(b, m, l) == [baseurl |-> b, metalink |-> m, mirrorlist |-> l]
Unset == NoOption(<< >>)
Sources ==
    { SourceOf(Unset, Unset, Unset),
      SourceOf(Option(HttpUrl), Unset, Unset),
      SourceOf(Option(FileUrl), Unset, Unset),
      SourceOf(Unset, Option(HttpUrl), Unset),
      SourceOf(Unset, Unset, Option(HttpUrl)),
      SourceOf(Option(HttpUrl), Option(HttpUrl), Unset),
      SourceOf(Unset, Option(HttpUrl), Option(FileUrl)),
      SourceOf(Option(<< >>), Option(HttpUrl), Unset),
      SourceOf(Unset, Option(<< >>), Unset) }
Sections ==
    { [name |-> n, enabled |-> e, skip_if_unavailable |-> k, source |-> src] :
        n \in SectionNames,
        e \in {NoOption("")} \cup { Option(t) : t \in BoolTexts },
        k \in {NoOption(""), Option("0"), Option("1")},
        src \in Sources }

\* config.sections(): every section once
Configs ==
    { c \in UNION { [1..n -> Sections] : n \in 0..MaxSections } :
        \A i, j \in DOMAIN c : c[i].name = c[j].name => i = j }

\* a test that skips no section
NeverDisabled(sec) == FALSE

\* lines 176-178: config.has_option(section, "enabled") and not config.getboolean(section, "enabled")
Disabled(sec) == sec.enabled.set /\ ~getboolean(sec.enabled.value)

\* an error that does not say where it comes from
ValueErrorUnnamed(text, name) == [class |-> "ValueError", msg |-> <<text>>]

ValueError(text, name) == [class |-> "ValueError", msg |-> <<text, name>>]

\* a flag that ignores the option
SkipNever(sec) == FALSE

\* lines 180-182: skip_if_unavailable = False, or the option's boolean when it is there
skip_if_unavailable_option(sec) ==
    IF sec.skip_if_unavailable.set THEN getboolean(sec.skip_if_unavailable.value) ELSE FALSE

\* the object Repo.__init__ makes, lines 227-235
NewRepo(repo_name, baseurl, metalink, skip_if_unavailable) ==
    [NoSelf EXCEPT !.name = repo_name, !.baseurl = baseurl, !.metalink = metalink,
                   !.skip_if_unavailable = skip_if_unavailable]

\* cls(section, baseurl=..., metalink=..., skip_if_unavailable=...): Repo.__init__
\* raises RuntimeError when neither argument is truthy (lines 228-229)
cls(repo_name, baseurl, metalink, skip_if_unavailable) ==
    IF ~truthy(baseurl) /\ ~truthy(metalink)
    THEN [exc |-> RuntimeError("Must specify either baseurl or metalink for repo"),
          repo |-> NoSelf]
    ELSE [exc |-> NoExc,
          repo |-> NewRepo(repo_name, baseurl, metalink, skip_if_unavailable)]

\* yield cls(...): the Repo goes to the caller, or the exception of the
\* constructor ends the generator
Yield(made) ==
    IF made.exc # NoExc
    THEN yexc' = made.exc /\ yielded' = yielded
    ELSE yexc' = yexc /\ yielded' = Append(yielded, made.repo)

\* a loop that reads the options in the order mirrorlist, metalink, baseurl
MirrorlistFirst(src) ==
    IF src.mirrorlist.set THEN "mirrorlist"
    ELSE IF src.metalink.set THEN "metalink"
    ELSE IF src.baseurl.set THEN "baseurl"
    ELSE "none"

\* lines 183-202: the option the if/elif chain takes
SourceTaken(src) ==
    IF src.baseurl.set THEN "baseurl"
    ELSE IF src.metalink.set THEN "metalink"
    ELSE IF src.mirrorlist.set THEN "mirrorlist"
    ELSE "none"

\* lines 172-206: one round of the loop over config.sections()
YumSection ==
    /\ section_i < Len(config)
    /\ yexc = NoExc
    /\ section_i' = section_i + 1
    /\ LET sec == config[section_i + 1]
           src == sec.source
           skip == skip_if_unavailable_option(sec)
           taken == SourceTaken(src)
       IN IF sec.name = "main"
          THEN UNCHANGED <<yielded, yexc>>
          ELSE IF sec.enabled.set /\ ~getboolean_ok(sec.enabled.value)
          THEN /\ yexc' = ValueError("Not a boolean", sec.enabled.value)
               /\ yielded' = yielded
          ELSE IF Disabled(sec)
          THEN UNCHANGED <<yielded, yexc>>
          ELSE IF sec.skip_if_unavailable.set /\ ~getboolean_ok(sec.skip_if_unavailable.value)
          THEN /\ yexc' = ValueError("Not a boolean", sec.skip_if_unavailable.value)
               /\ yielded' = yielded
          ELSE IF taken = "baseurl"
          THEN Yield(cls(sec.name, substitute_yumvars(src.baseurl.value, YumVars), None, skip))
          ELSE IF taken = "metalink"
          THEN Yield(cls(sec.name, None, substitute_yumvars(src.metalink.value, YumVars), skip))
          ELSE IF taken = "mirrorlist"
          THEN Yield(cls(sec.name, None, substitute_yumvars(src.mirrorlist.value, YumVars), skip))
          ELSE /\ yexc' = ValueError("Yum config section has no baseurl or metalink or mirrorlist",
                                      sec.name)
               /\ yielded' = yielded
    /\ UNCHANGED <<config, substVars, cacheVars, repoVars, headerVars>>

\* config.read(...) has read the files; the caller iterates over from_yum_config()
InitYum ==
    /\ InitWith(WarmLayout)
    /\ ~expiry_env.set
    /\ NoRepo /\ NoHeader
    /\ config \in Configs
    /\ section_i = 0
    /\ yielded = << >>
    /\ yexc = NoExc
    /\ NoSubst

NextYum == YumSection

SpecYum == InitYum /\ [][NextYum]_vars

\* ------------------------------------------------------- substitute_yumvars
\* pieces a configured URL is made of and variables the dict can hold
MaxPieces == 2
MaxVars == 2
Pieces == {"$a", "$b", "x"}
VarNames == {"a", "b"}
VarValues == {"x", "$a", "$b"}

\* the strings and the dicts substitute_yumvars is called with; a dict has
\* every name once and yields its items in insertion order
Strings == UNION { [1..n -> Pieces] : n \in 0..MaxPieces }
Dicts ==
    { d \in UNION { [1..n -> [name : VarNames, value : VarValues]] : n \in 0..MaxVars } :
        \A i, j \in DOMAIN d : d[i].name = d[j].name => i = j }

\* substitute_yumvars(s, _yumvars) returns
Substitute ==
    /\ subst_result = None
    /\ subst_result' = substitute_yumvars(subst_s, subst_yumvars)
    /\ UNCHANGED <<subst_s, subst_yumvars, config, section_i, yielded, yexc,
                   cacheVars, repoVars, headerVars>>

InitSubst ==
    /\ InitWith(WarmLayout)
    /\ ~expiry_env.set
    /\ NoRepo /\ NoHeader
    /\ config = << >> /\ section_i = 0 /\ yielded = << >> /\ yexc = NoExc
    /\ subst_s \in Strings
    /\ subst_yumvars \in Dicts
    /\ subst_result = None

NextSubst == Substitute

SpecSubst == InitSubst /\ [][NextSubst]_vars

\* ------------------------------------------------------------- properties
\* the temp file a call of process p for checksum c writes
TempOf(p, c) == parent(entry_path(c)) \o << <<"tmp", ToString(p)>> >>

\* the bytes of the file at a path
DataAt(fsys, tbl, path) == tbl[fsys[path].ino].data

DownloadPcs == {"utime", "rmtree", "mkstemp", "get", "stream", "commit", "cleanup"}

\* C1: under every interleaving of download_repodata_file calls and clean(),
\* writers killed between mkstemp and rename included, a regular file at
\* Cache.entry_path(C) holds the complete content of C, never a part of it.
C1_EntryNeverPartial ==
    \A c \in Checksums :
        IsFile(fs, entry_path(c)) => DataAt(fs, inodes, entry_path(c)) = Content(c)

\* a writer was killed with a partly written temp file, and the entry of the
\* same checksum, written by another process, is in place
C1_Witness ==
    \E p \in Procs, c \in Checksums :
        /\ pc[p] = "exit"
        /\ IsFile(fs, TempOf(p, c))
        /\ Len(DataAt(fs, inodes, TempOf(p, c))) \in 1..(NumChunks - 1)
        /\ IsFile(fs, entry_path(c))
        /\ fs[entry_path(c)].ino[1] \notin {0, p}

\* C2: a second download_repodata_file call of a process for the checksum of
\* its last returned handle, with no eviction of that entry in between, takes
\* the hit branch and issues no HTTP request; no call issues more than one;
\* the handles of one checksum a process holds deliver the same content.
C2_SecondCallIsHit ==
    \A p \in Procs :
        /\ (pc[p] \in DownloadPcs /\ call[p].checksum = last[p] /\ ~evicted[p])
              => (pc[p] = "utime" /\ nget[p] = nget0[p])
        /\ nget[p] - nget0[p] <= 1
        /\ \A h, g \in handles[p] :
              h.checksum = g.checksum => Read(inodes, h) = Read(inodes, g)

\* a process has called twice for one checksum: the first call downloaded, the
\* second returned the same file, and one HTTP request was issued in all
C2_Witness ==
    \E p \in Procs :
        /\ pc[p] = "idle" /\ result[p].kind = "returned" /\ nget[p] = 1
        /\ \E h, g \in handles[p] :
              /\ h.k = 1 /\ g.k = 2 /\ h.checksum = g.checksum
              /\ h.ino = <<p, 1>> /\ g.ino = h.ino
              /\ Read(inodes, h) = Content(h.checksum)

\* C3: when the HTTP download fails (get, raise_for_status or the streaming of
\* the body), the call raises RepoDownloadError naming the base filename of the
\* url, its temp file is removed and it leaves no file at the entry path.
C3_FailureRaisesRepoDownloadError ==
    [][\A p \in Procs :
         (pc[p] = "cleanup" /\ failed_at[p] # "" /\ pc'[p] = "idle") =>
            /\ result'[p].exc = "RepoDownloadError"
            /\ result'[p].msg = <<"Failed to download repodata file", basename(call[p].url)>>
            /\ ~IsFile(fs', temp_path[p])
            /\ ~(IsFile(fs', filepath_in_cache(p)) /\ fs'[filepath_in_cache(p)].ino = f[p].ino)]_vars

\* C4: an interruption of download_repodata_file while the download is in
\* progress (a KeyboardInterrupt) goes through the cleanup: when the call has
\* ended its temp file is gone and the entry path holds no partial content.
C4_InterruptCleansUp ==
    [][\A p \in Procs :
         (pc[p] \in {"get", "stream", "commit", "cleanup"} /\ pc'[p] = "exit") =>
            /\ ~IsFile(fs', temp_path[p])
            /\ IsFile(fs', filepath_in_cache(p)) =>
                  DataAt(fs', inodes', filepath_in_cache(p)) = Content(call[p].checksum)]_vars

\* the cache after a clean() that started with the cutoff expiry_time on the
\* file system fsys0: the regular files base/<subdir>/<entry> with an older
\* mtime are gone, everything else is as it was
AfterClean(fsys0, tbl0, cutoff) ==
    [q \in Paths |->
        IF Len(q) = 2 /\ IsFile(fsys0, q) /\ tbl0[fsys0[q].ino].mtime < cutoff
        THEN Absent
        ELSE fsys0[q]]

\* C5: clean() deletes exactly the regular files base_path()/<subdir>/<entry>
\* whose mtime is older than (time at its start - expiry window), the window
\* being RPMDEPLINT_EXPIRY_SECONDS or 604800; every other file, every directory
\* and every younger entry stays as it was, in whatever order it iterates.
C5_CleanDeletesExactlyExpired ==
    [][(pc[1] # "idle" \/ ncalls[1] = 0) /\ pc'[1] = "idle" /\ ncalls'[1] = 1 =>
         LET t0 == IF pc[1] = "idle" THEN now ELSE start_time[1]
             window == IF expiry_env.set THEN expiry_env.value ELSE DefaultExpirySeconds
             want == AfterClean(fs0, inodes0, t0 - window)
         IN /\ result'[1] = Returned("clean")
            /\ fs' = want
            /\ \A q \in Paths : IsFile(want, q) => inodes'[want[q].ino] = inodes0[want[q].ino]]_vars

\* clean() has returned: it deleted an old entry and kept a younger entry of
\* the same subdirectory, a directory among the entries and a file in the base
C5_Witness ==
    /\ pc[1] = "idle" /\ result[1] = Returned("clean")
    /\ \E q, r \in Paths :
          /\ Len(q) = 2 /\ Len(r) = 2 /\ parent(q) = parent(r)
          /\ IsFile(fs0, q) /\ ~IsFile(fs, q)
          /\ IsFile(fs0, r) /\ IsFile(fs, r)
    /\ \E q \in Paths : Len(q) = 2 /\ IsDir(fs, q)
    /\ \E q \in Paths : Len(q) = 1 /\ IsFile(fs, q)

\* C6: under every interleaving of a clean() with another clean() and with
\* download_repodata_file calls, clean() completes without raising an error.
C6_CleanNeverRaises ==
    \A p \in Procs : ~(result[p].op = "clean" /\ result[p].kind = "raised")

\* C7: a handle download_repodata_file returned delivers the complete content
\* of its checksum from the start, also after a clean() unlinked the entry or
\* a writer renamed another file over the entry path.
C7_HandlesKeepContent ==
    \A p \in Procs : \A h \in handles[p] : Read(inodes, h) = Content(h.checksum)

\* a process holds a handle of a file that a clean() has unlinked: no path
\* names the inode any more
C7_Witness ==
    \E p \in Procs : \E h \in handles[p] :
        /\ h.ino \notin Linked(fs)
        /\ ~IsFile(fs, entry_path(h.checksum))
        /\ evicted[p]

\* C8: once a file exists at Cache.entry_path(C), no step of any
\* download_repodata_file or clean() changes the bytes found at that path: the
\* entry is deleted by clean() or replaced by the same bytes, and all readers
\* of C hold the same bytes.
C8_EntriesImmutable ==
    [][/\ \A c \in Checksums :
            IsFile(fs, entry_path(c)) =>
               \/ /\ IsFile(fs', entry_path(c))
                  /\ DataAt(fs', inodes', entry_path(c)) = DataAt(fs, inodes, entry_path(c))
               \/ /\ ~IsFile(fs', entry_path(c))
                  /\ \E p \in Procs : /\ pc[p] = "clean_unlink" /\ pc'[p] = "clean_entry"
                                       /\ entry[p] = entry_path(c)
       /\ \A p, q \in Procs : \A h \in handles[p], g \in handles[q] :
            h.checksum = g.checksum => inodes[h.ino].data = inodes[g.ino].data]_vars

\* the entry of a checksum was replaced: a process holds a handle of an
\* earlier file of the entry, and the path names another file with the same bytes
C8_Witness ==
    \E p \in Procs : \E h \in handles[p] :
        /\ IsFile(fs, entry_path(h.checksum))
        /\ fs[entry_path(h.checksum)].ino # h.ino
        /\ DataAt(fs, inodes, entry_path(h.checksum)) = inodes[h.ino].data

\* C9: two processes that both download the same missing checksum both
\* return a handle that reads the complete content from its start (the rename
\* onto an existing entry does not fail); afterwards the entry path is a file,
\* the one renamed last, and no temp file of either call is left.
C9_ConcurrentWritersBothSucceed ==
    /\ \A p \in Procs : pc[p] = "cleanup" => failed_at[p] # ""
    /\ \A p, q \in Procs : \A h \in handles[p], g \in handles[q] :
          (p # q /\ h.checksum = g.checksum /\ h.ino = <<p, h.k>> /\ g.ino = <<q, g.k>>) =>
             /\ Read(inodes, h) = Content(h.checksum)
             /\ Read(inodes, g) = Content(g.checksum)
             /\ IsFile(fs, entry_path(h.checksum))
             /\ fs[entry_path(h.checksum)].ino \in {h.ino, g.ino}
             /\ ~IsFile(fs, TempOf(p, h.checksum))
             /\ ~IsFile(fs, TempOf(q, h.checksum))

\* both processes have downloaded the same checksum and returned
C9_Witness ==
    \E p, q \in Procs : \E h \in handles[p], g \in handles[q] :
        /\ p # q /\ h.checksum = g.checksum /\ h.ino = <<p, h.k>> /\ g.ino = <<q, g.k>>
        /\ pc[p] = "idle" /\ pc[q] = "idle"
        /\ fs[entry_path(h.checksum)].ino = g.ino

\* clean() unlinks an entry
Unlinks(p) == pc[p] = "clean_unlink" /\ pc'[p] = "clean_entry"

\* C10 as claimed: an entry is deleted only when its age since its last write
\* or hit (its mtime) exceeds the expiry window.
C10_DeletedOnlyWhenOlderThanWindow ==
    [][\A p \in Procs :
         Unlinks(p) => now - inodes[fs[entry[p]].ino].mtime > ExpiryWindow]_vars

\* C10 amended: a cache hit sets the mtime of the file it opened to the current
\* time, and clean() deletes an entry only when the mtime its own stat() of the
\* entry returned is more than the expiry window old: an entry whose mtime is
\* not older than the window when clean() stats it is not deleted by that clean().
C10_DeletedOnlyWhenStatOlderThanWindow ==
    [][\A p \in Procs :
         /\ (pc[p] = "utime" /\ pc'[p] = "idle") => inodes'[f[p].ino].mtime = now
         /\ Unlinks(p) => now - stat_mtime[p] > ExpiryWindow
         /\ (pc[p] = "clean_stat" /\ IsFile(fs, entry[p])
               /\ now - inodes[fs[entry[p]].ino].mtime <= ExpiryWindow)
              => pc'[p] # "clean_unlink"]_vars

\* clean() has statted an entry after a hit and keeps it: without the hit its
\* mtime would have been older than the cutoff
C10_Witness ==
    \E p, q \in Procs, c \in Checksums :
        /\ pc[p] = "clean_entry" /\ entry[p] = entry_path(c)
        /\ IsFile(fs, entry_path(c))
        /\ fs[entry_path(c)].ino \in InitInos
        /\ stat_mtime[p] = inodes[fs[entry_path(c)].ino].mtime
        /\ ~Expired(stat_mtime[p], expiry_time[p])
        /\ Expired(inodes0[fs[entry_path(c)].ino].mtime, expiry_time[p])
        /\ \E h \in handles[q] : h.ino = fs[entry_path(c)].ino

\* C11: a directory (legacy layout) at Cache.entry_path(C) makes
\* download_repodata_file(C, url) neither fail nor return it: open() fails with
\* EISDIR, the call removes the directory and goes on as a miss, and when it
\* returns the entry path is a regular file, the one it downloaded, holding
\* the complete content.
C11_LegacyDirectoryRepaired ==
    [][\A p \in Procs :
         /\ (pc[p] = "idle" /\ pc'[p] \in DownloadPcs
                /\ IsDir(fs, entry_path(call'[p].checksum)))
              => (pc'[p] = "rmtree" /\ result'[p].kind = "none")
         /\ (pc[p] = "rmtree" /\ pc'[p] # "rmtree")
              => /\ pc'[p] = "mkstemp"
                 /\ result'[p].kind = "none"
                 /\ ~IsDir(fs', filepath_in_cache(p))
         /\ (pc[p] \in {"mkstemp", "get", "stream", "commit"} /\ pc'[p] = "idle"
                /\ result'[p].kind = "returned")
              => /\ IsFile(fs', filepath_in_cache(p))
                 /\ fs'[filepath_in_cache(p)].ino = f[p].ino
                 /\ DataAt(fs', inodes', filepath_in_cache(p)) = Content(call[p].checksum)
                 /\ \E h \in handles'[p] :
                       h.ino = f[p].ino /\ Read(inodes', h) = Content(call[p].checksum)]_vars

\* the cache started with a directory at an entry path; a call has returned
\* the file it downloaded, which is now at that path
C11_Witness ==
    \E p \in Procs, c \in Checksums :
        /\ IsDir(fs0, entry_path(c))
        /\ pc[p] = "idle" /\ result[p] = Returned("download")
        /\ IsFile(fs, entry_path(c))
        /\ fs[entry_path(c)].ino[1] = p
        /\ DataAt(fs, inodes, entry_path(c)) = Content(c)
        /\ \E h \in handles[p] : h.ino = fs[entry_path(c)].ino /\ h.checksum = c

\* C12: every Repo object has exactly one of baseurl and metalink set: the
\* constructor rejects the call when neither is supplied and when both are.
C12_ExactlyOneSource ==
    /\ rpc \notin {"new", "raised"} => self # NoSelf
    /\ self # NoSelf => (truthy(self.baseurl) /\ ~truthy(self.metalink))
                         \/ (~truthy(self.baseurl) /\ truthy(self.metalink))

\* C13: for a Repo with a metalink and no baseurl, once perform() has
\* succeeded, download_repodata goes on to Cache.download_repodata_file for
\* the primary and the filelists file and ends with both file objects open;
\* it can only fail in one of these two calls.
C13_MetalinkRepoFetchesIndexFiles ==
    (truthy(self.metalink) /\ ~truthy(self.baseurl) /\ perform_result = "ok") =>
        \/ rpc \in {"primary_args", "primary", "filelists"}
        \/ rpc = "done" /\ self.primary.kind = "cache" /\ self.filelists.kind = "cache"
        \/ rpc = "raised" /\ ncalls[RepoProc] >= 2

C15_LocalRepoReadsFromDisk ==
    (self.baseurl = LocalRepoDir) =>
        /\ nget[RepoProc] = 0
        /\ ncalls[RepoProc] <= 1
        /\ \A q \in Paths : fs[q] # Absent => fs[q] = fs0[q]
        /\ rpc \notin {"primary_args", "primary", "filelists"}
        /\ rpc = "done" =>
              /\ self.root_path = LocalRepoDir
              /\ self.rpmmd_repomd = Repomd
              /\ self.primary = LocalFile(<<"/repo", "repodata", "primary.xml.gz">>)
              /\ self.filelists = LocalFile(<<"/repo", "repodata", "filelists.xml.gz">>)
              /\ primary_checksum(self) = <<"a", "x">>
              /\ filelists_checksum(self) = <<"b", "x">>

\* download_repodata has returned for a local repository, after its
\* Cache.clean() removed an expired entry from a cache that had entries
C15_Witness ==
    /\ self.baseurl = LocalRepoDir
    /\ rpc = "done"
    /\ self.primary.kind = "local" /\ self.filelists.kind = "local"
    /\ \E q \in Paths : IsFile(fs0, q) /\ ~IsFile(fs, q)
    /\ \E q \in Paths : IsFile(fs0, q) /\ IsFile(fs, q)

\* download_package_header is called
HeaderCalled == hcalls' = hcalls + 1

\* C16: when the repo root is a local directory, download_package_header
\* makes no download attempt and returns the path of the file at the given
\* location inside the root, for every location, also one with directory
\* components.
C16_LocalRootReturnsOriginalPath ==
    [][(HeaderCalled /\ self.root_path = LocalRepoDir) =>
          /\ rpc' = "done"
          /\ hres' = HeaderReturned(join(LocalRepoDir, location'))]_vars

\* the number of range downloads a header of hdr bytes takes
AttemptsFor(hdr) ==
    IF hdr <= 100000 THEN 1 ELSE IF hdr <= 1000000 THEN 2 ELSE IF hdr <= 5000000 THEN 3 ELSE 4

\* C17: download_package_header tries the ceilings 100000, 1000000, 5000000
\* and the whole file in this order, goes on to the next one only after a
\* result whose header is incomplete, and returns after the first complete
\* one: one attempt for a header of at most 100000 bytes, two for one between
\* 100000 and 1000000, and the file it returns for a valid package is
\* header-complete.
C17_CeilingsEscalateInOrder ==
    /\ Len(attempts) <= 4
    /\ \A i \in 1..Len(attempts) :
          attempts[i].byterangeend = <<100000, 1000000, 5000000, 0>>[i]
    /\ \A i \in 1..(Len(attempts) - 1) : ~attempts[i].complete
    /\ rpc = "header_loop" =>
          /\ Len(attempts) < 4
          /\ Len(attempts) > 0 => ~attempts[Len(attempts)].complete
    /\ (rpc = "done" /\ hres.kind = "returned" /\ Len(attempts) > 0) =>
          LET pk == pkgs[location]
              n == Len(attempts)
              file == downloaded[basename(location)]
          IN /\ attempts[n].complete \/ n = 4
             /\ pk.hdr <= pk.size =>
                   /\ attempts[n].complete
                   /\ file.exists /\ file.len >= pk.hdr
                   /\ n = AttemptsFor(pk.hdr)

\* a call for a remote repo has returned after two attempts, for a header
\* of more than 100000 and fewer than 1000000 bytes
C17_Witness ==
    /\ rpc = "done" /\ hres.kind = "returned"
    /\ self.root_path # LocalRepoDir
    /\ Len(attempts) = 2
    /\ pkgs[location].hdr = 100001
    /\ attempts[2].complete

\* C18: for a remote repo, a call that finds a file at the expected local
\* path whose header is complete returns that path without any download, so a
\* second call for a location after a call that returned its header-complete
\* file downloads nothing; a missing file and a file whose header does not
\* parse send the call into the loop, not into an error.
C18_CompleteFileShortCircuits ==
    [][(HeaderCalled /\ self.root_path # LocalRepoDir /\ ~self.librepo_handle.local) =>
          LET pk == pkgs'[location']
              file == downloaded[basename(location')]
              there == file.exists /\ file.len >= pk.hdr
              path == self.root_path \o <<basename(location')>>
          IN /\ there => /\ hres' = HeaderReturned(path)
                          /\ rpc' = "done"
                          /\ attempts' = << >>
                          /\ downloaded' = downloaded
             /\ ~there => /\ rpc' = "header_loop"
                           /\ hres'.kind = "none"
             /\ (hres.kind = "returned" /\ location' = location /\ pk.hdr <= pk.size)
                  => (there /\ rpc' = "done" /\ attempts' = << >>)]_vars

\* the second call for a location has returned the file of the first call
\* without a download
C18_Witness ==
    /\ hcalls = 2 /\ rpc = "done" /\ hres.kind = "returned"
    /\ self.root_path # LocalRepoDir /\ ~self.librepo_handle.local
    /\ attempts = << >>
    /\ downloaded[basename(location)].exists
    /\ downloaded[basename(location)].len = 1000000

\* C19: a range download that reports an error other than "Already
\* downloaded" makes download_package_header raise PackageDownloadError with
\* the location and the repo name at once, with no further attempt; after
\* "Already downloaded" nothing is raised and the header test follows.
C19_TransferErrorRaisesAtOnce ==
    [][Len(attempts') = Len(attempts) + 1 =>
          LET a == attempts'[Len(attempts')]
          IN /\ rpc = "header_loop"
             /\ \A i \in 1..Len(attempts) : attempts[i].err \in {"", "Already downloaded"}
             /\ a.err \notin {"", "Already downloaded"} =>
                   /\ rpc' = "done"
                   /\ hres'.kind = "raised"
                   /\ hres'.exc.class = "PackageDownloadError"
                   /\ hres'.exc.msg[2] = location
                   /\ hres'.exc.msg[4] = self.name
                   /\ hres'.exc.msg[5] = a.err
             /\ a.err = "Already downloaded" =>
                   /\ hres'.kind # "raised"
                   /\ downloaded' = downloaded
                   /\ IF downloaded[basename(location)].len >= pkgs[location].hdr
                         \/ Len(attempts') = 4
                      THEN rpc' = "done" /\ hres'.kind = "returned"
                      ELSE rpc' = "header_loop"]_vars

\* a call went on after "Already downloaded" and raised at the next attempt
C19_Witness ==
    /\ rpc = "done" /\ hres.kind = "raised"
    /\ Len(attempts) = 2
    /\ attempts[1].err = "Already downloaded"
    /\ attempts[2].err = "Cannot download"

\* C20: from_yum_config yields no Repo for the section main and none for a
\* section whose option enabled is present and false; such a section is
\* skipped before anything else about it is looked at, without an error, also
\* when it has none of baseurl, metalink and mirrorlist.
C20_DisabledSectionsSkipped ==
    [][/\ \A i \in 1..Len(yielded) :
            /\ yielded[i].name # "main"
            /\ \A j \in 1..Len(config) :
                  config[j].name = yielded[i].name =>
                      ~(config[j].enabled.set /\ config[j].enabled.value \in {"0", "False"})
       /\ section_i' = section_i + 1 =>
            LET sec == config[section_i']
            IN (sec.name = "main"
                  \/ (sec.enabled.set /\ sec.enabled.value \in {"0", "False"}))
               => (yielded' = yielded /\ yexc' = NoExc)]_vars

\* the loop has skipped a disabled section that names no source and has
\* yielded the Repo of the section after it
C20_Witness ==
    /\ Len(config) = 2 /\ section_i = 2
    /\ config[1].enabled = Option("0")
    /\ ~config[1].source.baseurl.set /\ ~config[1].source.metalink.set
    /\ ~config[1].source.mirrorlist.set
    /\ yexc = NoExc
    /\ Len(yielded) = 1 /\ yielded[1].name = config[2].name

\* the round of the loop that has just run was for the section Section' of the
\* configuration
SectionRound == section_i' = section_i + 1
Section == config[section_i]

\* the section is not main and its option enabled is absent or true
Enabled(sec) ==
    sec.name # "main" /\ (sec.enabled.set => sec.enabled.value = "1")

\* the value of the first of baseurl, metalink, mirrorlist the section has
FirstSource(sec) ==
    IF sec.source.baseurl.set THEN sec.source.baseurl.value
    ELSE IF sec.source.metalink.set THEN sec.source.metalink.value
    ELSE sec.source.mirrorlist.value

HasSource(sec) ==
    sec.source.baseurl.set \/ sec.source.metalink.set \/ sec.source.mirrorlist.set

ExpectedSources(sec, r) ==
    /\ r.name = sec.name
    /\ IF sec.source.baseurl.set
       THEN /\ r.baseurl = substitute_yumvars(sec.source.baseurl.value, YumVars)
            /\ r.metalink = None
       ELSE /\ r.baseurl = None
            /\ r.metalink = substitute_yumvars(FirstSource(sec), YumVars)

C24_FileUrlYieldsLocalRepo ==
    [][(SectionRound /\ Enabled(Section') /\ Section'.source.baseurl = Option(FileUrl)) =>
          /\ Len(yielded') = Len(yielded) + 1
          /\ LET r == yielded'[Len(yielded')]
             IN /\ r.baseurl = LocalRepoDir
                /\ r.metalink = None
                /\ truthy(r.baseurl) /\ isdir(r.baseurl)]_vars

\* C25: the Repo a round yields has skip_if_unavailable true when the section
\* has the option with a true value, false when the option is false or
\* absent, whichever of baseurl, metalink and mirrorlist the Repo comes from.
C25_SkipIfUnavailableFollowsOption ==
    [][(SectionRound /\ Len(yielded') = Len(yielded) + 1) =>
          yielded'[Len(yielded')].skip_if_unavailable
              = (Section'.skip_if_unavailable.set /\ Section'.skip_if_unavailable.value = "1")]_vars

\* a metalink section with the option true and a mirrorlist section with the
\* option false have both been yielded
C25_Witness ==
    /\ section_i = 2 /\ Len(yielded) = 2
    /\ ~config[1].source.baseurl.set /\ config[1].source.metalink.set
    /\ config[1].skip_if_unavailable = Option("1")
    /\ yielded[1].skip_if_unavailable
    /\ config[2].source = SourceOf(Unset, Unset, Option(HttpUrl))
    /\ config[2].skip_if_unavailable = Option("0")
    /\ ~yielded[2].skip_if_unavailable

\* one pass over the string: every piece $name becomes the value of name, and
\* what a value brings in is left as it is
SinglePass(str, yumvars) ==
    [i \in DOMAIN str |->
        IF \E k \in DOMAIN yumvars : str[i] = "$" \o yumvars[k].name
        THEN LET k == CHOOSE k \in DOMAIN yumvars : str[i] = "$" \o yumvars[k].name
             IN yumvars[k].value
        ELSE str[i]]

\* the same items in the opposite order
Reversed(yumvars) ==
    [i \in DOMAIN yumvars |-> yumvars[Len(yumvars) + 1 - i]]

\* C23: the value substitute_yumvars returns is the single pass over the
\* string, in which no text a value has brought in is replaced again, and it
\* is the same when the variables are taken in the opposite order.
C23_SinglePassOrderIndependent ==
    subst_result # None =>
        /\ subst_result = SinglePass(subst_s, subst_yumvars)
        /\ subst_result = substitute_yumvars(subst_s, Reversed(subst_yumvars))

\* the call of process p has made its temp file and has not yet renamed it
InProgress(p) == pc[p] \in {"get", "stream", "commit"}

\* C26: while a call of download_repodata_file is between mkstemp and rename,
\* no step removes its temp file, and a call that has streamed the whole
\* body ends by returning its handle unless the process is interrupted.
C26_CleanSparesDownloadInProgress ==
    [][\A p \in Procs :
          /\ (InProgress(p) /\ InProgress(p)' /\ IsFile(fs, temp_path[p]))
                => IsFile(fs', temp_path[p])
          /\ (pc[p] = "commit" /\ pc'[p] \notin {"commit", "exit"})
                => result'[p].kind = "returned"]_vars

\* C27: every round of the loop of download_package_header is one of at most
\* four; after the fourth the call has ended, and when that round reported no
\* transfer error the call has returned the local path, also for a file whose
\* header is still incomplete.
C27_LoopEndsAfterFourAttempts ==
    [][(rpc = "header_loop" /\ attempts' # attempts) =>
          /\ attempts' = Append(attempts, attempts'[Len(attempts')])
          /\ Len(attempts') <= 4
          /\ Len(attempts') = 4 =>
                /\ rpc' = "done"
                /\ attempts'[4].err \in {"", "Already downloaded"} =>
                      /\ hres'.kind = "returned"
                      /\ hres'.path = local_path(self, location)
                      /\ hres'.exc = NoExc]_vars

\* a call for a package whose header never parses has made its four
\* downloads and has returned the path of the file
C27_Witness ==
    /\ rpc = "done" /\ hres.kind = "returned"
    /\ Len(attempts) = 4
    /\ ~attempts[4].complete
    /\ pkgs[location].hdr > pkgs[location].size

====
